---- MODULE Spec2Model ----
(***************************************************************************)
(* A model of the PubSub registry of general_pub_sub (src/src/lib.rs):     *)
(* the client table, the literal and the pattern subscription tables, and  *)
(* the five operations add_client, remove_client, sub_client,              *)
(* unsub_client and pub_message.                                           *)
(***************************************************************************)
EXTENDS Integers, Sequences, FiniteSets, TLC

\* Identifiers are 1..MaxId (u32 identifiers as in examples/basic.rs).
MaxId == 2

Identifiers == 1..MaxId

\* A client value: get_id() returns .id; .handle stands for the rest of the
\* value (a stream, a socket), which tells two values with one id apart.
\* One client value per identifier, as in the examples.
ClientValues == [id : Identifiers, handle : {"h1"}]
\* Identifier 1 has a second client value, so that a registered client can
\* be replaced by a different value with the same identifier.
ReplacingClients == ClientValues \cup {[id |-> 1, handle |-> "h2"]}

get_id(client) == client.id

\* Channel names are strings, held as sequences of characters.
\* The names clients subscribe to: one literal name and two patterns that
\* both match it.
SubNames == { <<"a", "b">>, <<"a", "?">>, <<"a", "*">> }
\* The names published to and unsubscribed from: those, and a literal name
\* nobody ever subscribes to, which only one of the patterns matches.
ChannelNames == SubNames \cup { <<"a">> }

Messages == {"P1"}

NoClient == [id |-> 0, handle |-> ""]
NoChannel == <<>>
NoMessage == ""

VARIABLES
    clients,            \* HashMap<TIdentifier, TClient>
    channels,           \* HashMap<&str, BTreeSet<TIdentifier>>
    pattern_channels,   \* HashMap<&str, BTreeSet<TIdentifier>>
    lastOp              \* the last call: its arguments, result and sends

vars == <<clients, channels, pattern_channels, lastOp>>

----------------------------------------------------------------------------
\* Pure helpers

\* The classification as it would be if it looked for `*` only.
channel_is_pattern_StarOnly(channel) ==
    \E i \in DOMAIN channel : channel[i] = "*"

\* channel.contains('*') || channel.contains('?')
channel_is_pattern(channel) ==
    \/ \E i \in DOMAIN channel : channel[i] = "*"
    \/ \E i \in DOMAIN channel : channel[i] = "?"

\* WildMatch::new(pattern) == subject: anchored glob matching, `*` any run
\* of characters, `?` exactly one character.
RECURSIVE WildMatch(_, _)
WildMatch(pattern, subject) ==
    IF pattern = <<>> THEN subject = <<>>
    ELSE IF Head(pattern) = "*"
         THEN \/ WildMatch(Tail(pattern), subject)
              \/ subject # <<>> /\ WildMatch(pattern, Tail(subject))
    ELSE /\ subject # <<>>
         /\ Head(pattern) = "?" \/ Head(pattern) = Head(subject)
         /\ WildMatch(Tail(pattern), Tail(subject))

\* BTreeSet::iter(): the elements in ascending order.
RECURSIVE BTreeIter(_)
BTreeIter(set) ==
    IF set = {} THEN <<>>
    ELSE LET least == CHOOSE x \in set : \A y \in set : x <= y
         IN  <<least>> \o BTreeIter(set \ {least})

\* HashMap::insert / entry: the map with key bound to value.
MapInsert(map, key, value) ==
    [k \in DOMAIN map \cup {key} |-> IF k = key THEN value ELSE map[k]]

\* HashMap::remove: the map without key.
MapRemove(map, key) ==
    [k \in DOMAIN map \ {key} |-> map[k]]

\* The iteration orders a HashMap over these keys can produce.
IterOrders(keys) ==
    { order \in [1..Cardinality(keys) -> keys] :
        \A i, j \in 1..Cardinality(keys) : order[i] = order[j] => i = j }

\* Itertools::unique(): each element kept at its first occurrence.
RECURSIVE Unique(_)
Unique(seq) ==
    IF seq = <<>> THEN <<>>
    ELSE LET init == SubSeq(seq, 1, Len(seq) - 1)
             last == seq[Len(seq)]
         IN  IF \E i \in 1..Len(init) : init[i] = last
             THEN Unique(init)
             ELSE Append(Unique(init), last)

Call(op, client, channel, msg, result, sent) ==
    [op |-> op, client |-> client, channel |-> channel, msg |-> msg,
     result |-> result, sent |-> sent]

----------------------------------------------------------------------------
\* PubSub::new()
Init ==
    /\ clients = <<>>
    /\ channels = <<>>
    /\ pattern_channels = <<>>
    /\ lastOp = Call("new", NoClient, NoChannel, NoMessage, "Ok", <<>>)

\* add_client as it would be with entry(id).or_insert(client): the value
\* registered first is kept.
add_client_KeepFirst(client) ==
    /\ clients' = IF get_id(client) \in DOMAIN clients
                  THEN clients
                  ELSE MapInsert(clients, get_id(client), client)
    /\ lastOp' = Call("add_client", client, NoChannel, NoMessage, "Ok", <<>>)
    /\ UNCHANGED <<channels, pattern_channels>>

\* add_client: self.clients.insert(client.get_id(), client)
add_client(client) ==
    /\ clients' = MapInsert(clients, get_id(client), client)
    /\ lastOp' = Call("add_client", client, NoChannel, NoMessage, "Ok", <<>>)
    /\ UNCHANGED <<channels, pattern_channels>>

\* The purge as it would be if it also dropped the entries it empties.
RemoveFromAll_DropEmpty(table, identifier) ==
    [k \in {j \in DOMAIN table : table[j] \ {identifier} # {}} |->
        table[k] \ {identifier}]

\* for subbed_clients in table.values_mut() { subbed_clients.remove(id) }
RemoveFromAll(table, identifier) ==
    [k \in DOMAIN table |-> table[k] \ {identifier}]

\* remove_client as it would be if it purged the literal table only.
remove_client_LiteralOnly(client) ==
    LET identifier == get_id(client)
    IN  /\ clients' = MapRemove(clients, identifier)
        /\ channels' = RemoveFromAll(channels, identifier)
        /\ UNCHANGED pattern_channels
        /\ lastOp' = Call("remove_client", client, NoChannel, NoMessage,
                          "Ok", <<>>)

\* remove_client as it would be if it returned early for an identifier
\* that is not in the client table.
remove_client_ReturnIfAbsent(client) ==
    LET identifier == get_id(client)
    IN  /\ clients' = MapRemove(clients, identifier)
        /\ IF identifier \in DOMAIN clients
           THEN /\ channels' = RemoveFromAll(channels, identifier)
                /\ pattern_channels' =
                      RemoveFromAll(pattern_channels, identifier)
           ELSE UNCHANGED <<channels, pattern_channels>>
        /\ lastOp' = Call("remove_client", client, NoChannel, NoMessage,
                          "Ok", <<>>)

\* remove_client
remove_client(client) ==
    LET identifier == get_id(client)
    IN  /\ clients' = MapRemove(clients, identifier)
        /\ channels' = RemoveFromAll(channels, identifier)
        /\ pattern_channels' = RemoveFromAll(pattern_channels, identifier)
        /\ lastOp' = Call("remove_client", client, NoChannel, NoMessage,
                          "Ok", <<>>)

\* get_channels_for_subscription: which table a channel name selects.
get_channels_for_subscription(channel) ==
    IF channel_is_pattern(channel) THEN "pattern_channels" ELSE "channels"

\* The table behind the reference get_channels_for_subscription returns.
TableOf(which) ==
    IF which = "pattern_channels" THEN pattern_channels ELSE channels

\* Writing through that reference.
StoreTable(which, table) ==
    IF which = "pattern_channels"
    THEN pattern_channels' = table /\ UNCHANGED channels
    ELSE channels' = table /\ UNCHANGED pattern_channels

\* BTreeSet::insert: the new set, and true iff the value was not present.
BTreeInsert(set, x) == [set |-> set \cup {x}, changed |-> x \notin set]

\* BTreeSet::remove: the new set, and true iff the value was present.
BTreeRemove(set, x) == [set |-> set \ {x}, changed |-> x \in set]

\* target_channels.entry(channel).or_insert_with(BTreeSet::new)
OrInsertEmpty(table, channel) ==
    IF channel \in DOMAIN table THEN table ELSE MapInsert(table, channel, {})

\* The Result as it would be if insert's return value were ignored.
SubResult_AlwaysOk(inserted) == "Ok"

\* The Result sub_client builds from BTreeSet::insert's return.
SubResult(inserted) ==
    IF inserted THEN "Ok" ELSE "ClientAlreadySubscribedError"

\* sub_client as the stricter variant that refuses a client that was not
\* added, with the reserved ClientDoesNotExistError.
sub_client_RequireClient(client, channel) ==
    LET which == get_channels_for_subscription(channel)
        target_channels == OrInsertEmpty(TableOf(which), channel)
        ins == BTreeInsert(target_channels[channel], get_id(client))
        result == SubResult(ins.changed)
    IN  /\ IF get_id(client) \in DOMAIN clients
           THEN /\ StoreTable(which,
                              MapInsert(target_channels, channel, ins.set))
                /\ lastOp' = Call("sub_client", client, channel, NoMessage,
                                  result, <<>>)
           ELSE /\ UNCHANGED <<channels, pattern_channels>>
                /\ lastOp' = Call("sub_client", client, channel, NoMessage,
                                  "ClientDoesNotExistError", <<>>)
        /\ UNCHANGED clients

\* sub_client
sub_client(client, channel) ==
    LET which == get_channels_for_subscription(channel)
        target_channels == OrInsertEmpty(TableOf(which), channel)
        ins == BTreeInsert(target_channels[channel], get_id(client))
        result == SubResult(ins.changed)
    IN  /\ StoreTable(which, MapInsert(target_channels, channel, ins.set))
        /\ lastOp' = Call("sub_client", client, channel, NoMessage, result, <<>>)
        /\ UNCHANGED clients

\* The Result as it would be if remove's return value were ignored.
UnsubResult_AlwaysOk(removed) == "Ok"

\* The Result unsub_client builds from BTreeSet::remove's return.
UnsubResult(removed) ==
    IF removed THEN "Ok" ELSE "ClientNotSubscribedError"

\* unsub_client as it would be if it took the set with
\* entry(channel).or_insert_with(BTreeSet::new), as sub_client does.
unsub_client_OrInsert(client, channel) ==
    LET which == get_channels_for_subscription(channel)
        target_channels == OrInsertEmpty(TableOf(which), channel)
        rem == BTreeRemove(target_channels[channel], get_id(client))
    IN  /\ StoreTable(which, MapInsert(target_channels, channel, rem.set))
        /\ lastOp' = Call("unsub_client", client, channel, NoMessage,
                          UnsubResult(rem.changed), <<>>)
        /\ UNCHANGED clients

\* unsub_client as it would be if it took the channel string as a subject:
\* the identifier also leaves the set of every pattern the string matches.
unsub_client_ByMatch(client, channel) ==
    LET id == get_id(client)
        inLiteral == channel \in DOMAIN channels /\ id \in channels[channel]
        inPattern == \E k \in DOMAIN pattern_channels :
                        WildMatch(k, channel) /\ id \in pattern_channels[k]
    IN  /\ channels' = [k \in DOMAIN channels |->
                           IF k = channel THEN channels[k] \ {id}
                           ELSE channels[k]]
        /\ pattern_channels' =
              [k \in DOMAIN pattern_channels |->
                  IF WildMatch(k, channel) THEN pattern_channels[k] \ {id}
                  ELSE pattern_channels[k]]
        /\ lastOp' = Call("unsub_client", client, channel, NoMessage,
                          IF inLiteral \/ inPattern THEN "Ok"
                          ELSE IF channel \in DOMAIN TableOf(
                                     get_channels_for_subscription(channel))
                          THEN "ClientNotSubscribedError"
                          ELSE "ChannelDoesNotExistError", <<>>)
        /\ UNCHANGED clients

\* unsub_client as it would be if a successful call removed the channel's
\* entry (target_channels.remove(channel)) and not the one identifier.
unsub_client_RemoveEntry(client, channel) ==
    LET which == get_channels_for_subscription(channel)
        target_channels == TableOf(which)
    IN  /\ IF channel \in DOMAIN target_channels
           THEN LET rem == BTreeRemove(target_channels[channel], get_id(client))
                IN  /\ StoreTable(which,
                                  IF rem.changed
                                  THEN MapRemove(target_channels, channel)
                                  ELSE target_channels)
                    /\ lastOp' = Call("unsub_client", client, channel,
                                      NoMessage, UnsubResult(rem.changed), <<>>)
           ELSE /\ UNCHANGED <<channels, pattern_channels>>
                /\ lastOp' = Call("unsub_client", client, channel, NoMessage,
                                  "ChannelDoesNotExistError", <<>>)
        /\ UNCHANGED clients

\* unsub_client
unsub_client(client, channel) ==
    LET which == get_channels_for_subscription(channel)
        target_channels == TableOf(which)
    IN  /\ IF channel \in DOMAIN target_channels
           THEN LET rem == BTreeRemove(target_channels[channel], get_id(client))
                IN  /\ StoreTable(which,
                                  MapInsert(target_channels, channel, rem.set))
                    /\ lastOp' = Call("unsub_client", client, channel,
                                      NoMessage, UnsubResult(rem.changed), <<>>)
           ELSE /\ UNCHANGED <<channels, pattern_channels>>
                /\ lastOp' = Call("unsub_client", client, channel, NoMessage,
                                  "ChannelDoesNotExistError", <<>>)
        /\ UNCHANGED clients

\* The pattern subscribers as they would be with find() in place of
\* filter(): only the first matching pattern contributes.
RECURSIVE PatternClientIdentifiers_FirstMatch(_, _)
PatternClientIdentifiers_FirstMatch(order, channel) ==
    IF order = <<>> THEN <<>>
    ELSE IF WildMatch(Head(order), channel)
         THEN BTreeIter(pattern_channels[Head(order)])
         ELSE PatternClientIdentifiers_FirstMatch(Tail(order), channel)

\* The pattern subscribers as they would be with the published name as the
\* pattern and the stored key as the subject.
RECURSIVE PatternClientIdentifiers_Reversed(_, _)
PatternClientIdentifiers_Reversed(order, channel) ==
    IF order = <<>> THEN <<>>
    ELSE (IF WildMatch(channel, Head(order))
          THEN BTreeIter(pattern_channels[Head(order)])
          ELSE <<>>)
         \o PatternClientIdentifiers_Reversed(Tail(order), channel)

\* pattern_channels.iter().filter(WildMatch::new(pattern) == channel)
\*     .map(|(_, clients)| clients.iter()).flatten()
\* for the HashMap iteration order `order`.
RECURSIVE PatternClientIdentifiers(_, _)
PatternClientIdentifiers(order, channel) ==
    IF order = <<>> THEN <<>>
    ELSE (IF WildMatch(Head(order), channel)
          THEN BTreeIter(pattern_channels[Head(order)])
          ELSE <<>>)
         \o PatternClientIdentifiers(Tail(order), channel)

\* self.channels.get_mut(channel).iter().map(|c| c.iter()).flatten()
SubbedClientIdentifiers(channel) ==
    IF channel \in DOMAIN channels THEN BTreeIter(channels[channel]) ELSE <<>>

\* The chain as it would be with the pattern subscribers first.
UniqueClientIdentifiers_PatternFirst(subbed, pattern) ==
    Unique(pattern \o subbed)

\* The chain without unique().
UniqueClientIdentifiers_NoDedup(subbed, pattern) == subbed \o pattern

\* subbed_client_identifiers.chain(pattern_client_identifiers).unique()
UniqueClientIdentifiers(subbed, pattern) == Unique(subbed \o pattern)

\* The sends as they would be if the loop ended at the first identifier
\* that is not in the client table.
RECURSIVE SendAll_StopAtMissing(_, _)
SendAll_StopAtMissing(ids, msg) ==
    IF ids = <<>> THEN <<>>
    ELSE IF Head(ids) \in DOMAIN clients
         THEN << [client |-> clients[Head(ids)], msg |-> msg] >>
              \o SendAll_StopAtMissing(Tail(ids), msg)
         ELSE <<>>

\* for identifier in ids { if let Some(client) = clients.get(identifier)
\*                           { client.send(msg) } }: the sends, in order.
RECURSIVE SendAll(_, _)
SendAll(ids, msg) ==
    IF ids = <<>> THEN <<>>
    ELSE (IF Head(ids) \in DOMAIN clients
          THEN << [client |-> clients[Head(ids)], msg |-> msg] >>
          ELSE <<>>)
         \o SendAll(Tail(ids), msg)

\* pub_message as it would be if it took the literal set with
\* entry(channel).or_insert_with(BTreeSet::new) in place of get_mut(channel).
pub_message_OrInsert(channel, msg) ==
    \E order \in IterOrders(DOMAIN pattern_channels) :
        LET pattern_client_identifiers ==
                PatternClientIdentifiers(order, channel)
            subbed_client_identifiers == SubbedClientIdentifiers(channel)
            unique_client_identifiers ==
                UniqueClientIdentifiers(subbed_client_identifiers,
                                        pattern_client_identifiers)
        IN  /\ lastOp' = Call("pub_message", NoClient, channel, msg, "Ok",
                              SendAll(unique_client_identifiers, msg))
            /\ channels' = OrInsertEmpty(channels, channel)
            /\ UNCHANGED <<clients, pattern_channels>>

\* pub_message
pub_message(channel, msg) ==
    \E order \in IterOrders(DOMAIN pattern_channels) :
        LET pattern_client_identifiers ==
                PatternClientIdentifiers(order, channel)
            subbed_client_identifiers == SubbedClientIdentifiers(channel)
            unique_client_identifiers ==
                UniqueClientIdentifiers(subbed_client_identifiers,
                                        pattern_client_identifiers)
        IN  /\ lastOp' = Call("pub_message", NoClient, channel, msg, "Ok",
                              SendAll(unique_client_identifiers, msg))
            /\ UNCHANGED <<clients, channels, pattern_channels>>

Next ==
    \/ \E client \in ClientValues : add_client(client)
    \/ \E client \in ClientValues : remove_client(client)
    \/ \E client \in ClientValues, channel \in SubNames :
           sub_client(client, channel)
    \/ \E client \in ClientValues, channel \in ChannelNames :
           unsub_client(client, channel)
    \/ \E channel \in ChannelNames, msg \in Messages :
           pub_message(channel, msg)

Spec == Init /\ [][Next]_vars

\* The registry driven with two client values for identifier 1, on one
\* literal name and one pattern that matches it.
ReplaceNames == { <<"a", "b">>, <<"a", "*">> }

NextReplace ==
    \/ \E client \in ReplacingClients : add_client(client)
    \/ \E client \in ReplacingClients : remove_client(client)
    \/ \E client \in ReplacingClients, channel \in ReplaceNames :
           sub_client(client, channel)
    \/ \E client \in ReplacingClients, channel \in ReplaceNames :
           unsub_client(client, channel)
    \/ \E channel \in ReplaceNames \cup { <<"a">> }, msg \in Messages :
           pub_message(channel, msg)

SpecReplace == Init /\ [][NextReplace]_vars

----------------------------------------------------------------------------
\* State functions the properties are stated with

\* The literal table's subscriber set for a name (empty when no entry).
LiteralSubscribers(name) ==
    IF name \in DOMAIN channels THEN channels[name] ELSE {}

\* The pattern-table keys that match a name.
MatchingPatterns(name) ==
    {p \in DOMAIN pattern_channels : WildMatch(p, name)}

\* The subscribers selected only or also through matching patterns.
PatternSubscribers(name) ==
    UNION {pattern_channels[p] : p \in MatchingPatterns(name)}

\* The identifiers a call sent to.
SentIds(call) == {call.sent[i].client.id : i \in DOMAIN call.sent}

\* The identifier is in some subscriber set of either table.
InAnySet(c) ==
    \/ \E k \in DOMAIN channels : c \in channels[k]
    \/ \E k \in DOMAIN pattern_channels : c \in pattern_channels[k]

\* The table a channel name's classification selects.
SelectedTable(name) ==
    IF (\E i \in DOMAIN name : name[i] \in {"*", "?"})
    THEN pattern_channels ELSE channels

\* The same table in the state after the step.
SelectedTableAfter(name) ==
    IF (\E i \in DOMAIN name : name[i] \in {"*", "?"})
    THEN pattern_channels' ELSE channels'

IsPub(call) == call.op = "pub_message"

----------------------------------------------------------------------------
\* C1: a publish to name n sends exactly to the clients whose identifier is
\* a key of the client table and is in the literal set of n or in the set of
\* at least one pattern matching n; every send carries the published message
\* and nobody outside that set is sent to.
C1_DeliverySet ==
    IsPub(lastOp) =>
        /\ SentIds(lastOp) =
              (LiteralSubscribers(lastOp.channel)
                 \cup PatternSubscribers(lastOp.channel)) \cap DOMAIN clients
        /\ \A i \in DOMAIN lastOp.sent : lastOp.sent[i].msg = lastOp.msg

\* A publish that reached one client through a pattern while another
\* registered, subscribed client was left out.
C1_Witness ==
    /\ IsPub(lastOp)
    /\ lastOp.channel = <<"a">>
    /\ SentIds(lastOp) = {1}
    /\ 2 \in DOMAIN clients
    /\ InAnySet(2)

\* C2: one publish sends at most once to each identifier, however many
\* routes (literal name, several matching patterns) select it.
C2_AtMostOnce ==
    IsPub(lastOp) =>
        \A i, j \in DOMAIN lastOp.sent :
            lastOp.sent[i].client.id = lastOp.sent[j].client.id => i = j

\* A publish to a client selected by the literal name and by two patterns.
C2_Witness ==
    /\ IsPub(lastOp)
    /\ \E c \in SentIds(lastOp) :
          /\ c \in LiteralSubscribers(lastOp.channel)
          /\ Cardinality({p \in MatchingPatterns(lastOp.channel) :
                             c \in pattern_channels[p]}) >= 2

\* C3: within one publish the sends are in strictly ascending identifier
\* order over the whole delivery set.
C3_AscendingOrder ==
    IsPub(lastOp) =>
        \A i, j \in DOMAIN lastOp.sent :
            i < j => lastOp.sent[i].client.id < lastOp.sent[j].client.id

\* C4: remove_client(c) leaves c absent from the client table and from every
\* subscriber set; c becomes a key of the client table again only by
\* add_client(c) and a member of a subscriber set again only by a successful
\* sub_client(c, _); and a publish sends to c only while c is both a key of
\* the client table and a member of a subscriber set. So nothing is sent to
\* c after remove_client(c) until c is added and subscribed again.
C4_RemovePurges ==
    [][\A c \in Identifiers :
          /\ (lastOp'.op = "remove_client" /\ lastOp'.client.id = c)
                => (c \notin DOMAIN clients' /\ ~InAnySet(c)')
          /\ (c \notin DOMAIN clients /\ c \in DOMAIN clients')
                => (lastOp'.op = "add_client" /\ lastOp'.client.id = c)
          /\ (~InAnySet(c) /\ InAnySet(c)')
                => (/\ lastOp'.op = "sub_client"
                    /\ lastOp'.client.id = c
                    /\ lastOp'.result = "Ok")
          /\ (IsPub(lastOp') /\ c \in SentIds(lastOp'))
                => (c \in DOMAIN clients /\ InAnySet(c))
      ]_vars

\* Client 1 was removed, added again and not subscribed again: a publish to
\* the name whose literal and pattern entries it had been in sends nothing.
C4_Witness ==
    /\ IsPub(lastOp)
    /\ lastOp.channel = <<"a", "b">>
    /\ lastOp.sent = <<>>
    /\ 1 \in DOMAIN clients
    /\ <<"a", "b">> \in DOMAIN channels
    /\ <<"a", "*">> \in DOMAIN pattern_channels
    /\ ~InAnySet(1)

\* C5: sub_client(c, ch) returns Ok exactly when c was not already in the
\* set for ch in the selected table, ClientAlreadySubscribedError otherwise;
\* afterwards c is in that set, and a sub_client(c, ch) right after a
\* successful one fails with ClientAlreadySubscribedError.
C5_SubResult ==
    [][lastOp'.op = "sub_client" =>
          LET c == lastOp'.client.id
              ch == lastOp'.channel
              before == IF ch \in DOMAIN SelectedTable(ch)
                        THEN SelectedTable(ch)[ch] ELSE {}
          IN  /\ lastOp'.result \in {"Ok", "ClientAlreadySubscribedError"}
              /\ lastOp'.result = "Ok" <=> c \notin before
              /\ ch \in DOMAIN SelectedTableAfter(ch)
              /\ SelectedTableAfter(ch)[ch] = before \cup {c}
              /\ (/\ lastOp.op = "sub_client"
                  /\ lastOp.client.id = c
                  /\ lastOp.channel = ch
                  /\ lastOp.result = "Ok")
                    => lastOp'.result = "ClientAlreadySubscribedError"
      ]_vars

\* A second subscription to a pattern was refused.
C5_Witness ==
    /\ lastOp.op = "sub_client"
    /\ lastOp.result = "ClientAlreadySubscribedError"
    /\ lastOp.channel = <<"a", "?">>
    /\ lastOp.client.id \in pattern_channels[<<"a", "?">>]

\* C6: unsub_client(c, ch) returns ChannelDoesNotExistError exactly when the
\* selected table has no entry for ch; with an entry, it returns Ok and
\* removes c when c is in the set, ClientNotSubscribedError when it is not.
C6_UnsubResult ==
    [][lastOp'.op = "unsub_client" =>
          LET c == lastOp'.client.id
              ch == lastOp'.channel
              table == SelectedTable(ch)
          IN  /\ lastOp'.result = "ChannelDoesNotExistError"
                    <=> ch \notin DOMAIN table
              /\ (ch \in DOMAIN table /\ c \in table[ch])
                    => (/\ lastOp'.result = "Ok"
                        /\ SelectedTableAfter(ch)[ch] = table[ch] \ {c})
              /\ (ch \in DOMAIN table /\ c \notin table[ch])
                    => lastOp'.result = "ClientNotSubscribedError"
      ]_vars

\* An unsubscribe from a literal name without entry, by a client that is
\* subscribed to a pattern matching that name.
C6_Witness ==
    /\ lastOp.op = "unsub_client"
    /\ lastOp.result = "ChannelDoesNotExistError"
    /\ lastOp.channel = <<"a", "b">>
    /\ \E p \in MatchingPatterns(<<"a", "b">>) :
          lastOp.client.id \in pattern_channels[p]

\* C7: a sub_client or unsub_client that returns an error leaves the client
\* table, the key sets of both tables and every subscriber set unchanged.
C7_ErrorUnchanged ==
    [][(lastOp'.op \in {"sub_client", "unsub_client"}
          /\ lastOp'.result # "Ok")
         => UNCHANGED <<clients, channels, pattern_channels>>
      ]_vars

\* A refused unsubscribe from a pattern that other clients are subscribed
\* to, while the literal table is empty.
C7_Witness ==
    /\ lastOp.op = "unsub_client"
    /\ lastOp.result = "ClientNotSubscribedError"
    /\ channels = <<>>
    /\ pattern_channels[lastOp.channel] # {}

\* C8 (as stated): remove_client(c) with c not a key of the client table
\* changes neither the client table nor either subscription table.
C8_RemoveAbsentNoOp ==
    [][(lastOp'.op = "remove_client"
          /\ lastOp'.client.id \notin DOMAIN clients)
         => UNCHANGED <<clients, channels, pattern_channels>>
      ]_vars

\* C8 (amended): remove_client(c) with c not a key of the client table
\* leaves the client table and the key sets of both tables unchanged and
\* takes c out of every subscriber set, leaving the other members; it
\* changes nothing exactly when c was in no subscriber set.
C8_RemoveAbsentPurges ==
    [][(lastOp'.op = "remove_client"
          /\ lastOp'.client.id \notin DOMAIN clients)
         => LET c == lastOp'.client.id
            IN  /\ clients' = clients
                /\ DOMAIN channels' = DOMAIN channels
                /\ DOMAIN pattern_channels' = DOMAIN pattern_channels
                /\ \A k \in DOMAIN channels :
                      channels'[k] = channels[k] \ {c}
                /\ \A k \in DOMAIN pattern_channels :
                      pattern_channels'[k] = pattern_channels[k] \ {c}
                /\ (UNCHANGED <<channels, pattern_channels>>)
                      <=> ~InAnySet(c)
      ]_vars

\* A client was removed while no client is registered: a literal entry is
\* left in place with an empty set, and a pattern entry still holds every
\* other identifier.
C8_Witness ==
    /\ lastOp.op = "remove_client"
    /\ clients = <<>>
    /\ \E k \in DOMAIN channels : channels[k] = {}
    /\ \E k \in DOMAIN pattern_channels :
          pattern_channels[k] = Identifiers \ {lastOp.client.id}

\* C9: add_client always returns and binds the identifier to the given
\* client value, replacing any value bound before; it changes no other
\* client entry and neither subscription table; and a publish sends to the
\* value bound to the identifier at that time, once.
C9_LastWriteWins ==
    [][/\ lastOp'.op = "add_client" =>
            /\ lastOp'.result = "Ok"
            /\ DOMAIN clients' = DOMAIN clients \cup {lastOp'.client.id}
            /\ clients'[lastOp'.client.id] = lastOp'.client
            /\ \A i \in DOMAIN clients \ {lastOp'.client.id} :
                  clients'[i] = clients[i]
            /\ UNCHANGED <<channels, pattern_channels>>
       /\ IsPub(lastOp') =>
            \A i, j \in DOMAIN lastOp'.sent :
               /\ lastOp'.sent[i].client = clients[lastOp'.sent[i].client.id]
               /\ lastOp'.sent[i].client.id = lastOp'.sent[j].client.id
                     => i = j
      ]_vars

\* A publish sent to the second client value of identifier 1, selected by
\* the literal name and by a pattern, and to client 2.
C9_Witness ==
    /\ IsPub(lastOp)
    /\ lastOp.channel = <<"a", "b">>
    /\ Len(lastOp.sent) = 2
    /\ lastOp.sent[1].client = [id |-> 1, handle |-> "h2"]
    /\ 1 \in LiteralSubscribers(<<"a", "b">>)
    /\ 1 \in PatternSubscribers(<<"a", "b">>)

\* C10: no operation deletes a channel entry, an entry appears only by a
\* successful sub_client on that name, and unsub_client on a name whose
\* entry holds an empty set returns ClientNotSubscribedError.
C10_EntriesKept ==
    [][/\ DOMAIN channels \subseteq DOMAIN channels'
       /\ DOMAIN pattern_channels \subseteq DOMAIN pattern_channels'
       /\ \A k \in (DOMAIN channels' \ DOMAIN channels)
                   \cup (DOMAIN pattern_channels' \ DOMAIN pattern_channels) :
             /\ lastOp'.op = "sub_client"
             /\ lastOp'.channel = k
             /\ lastOp'.result = "Ok"
       /\ (/\ lastOp'.op = "unsub_client"
           /\ lastOp'.channel \in DOMAIN SelectedTable(lastOp'.channel)
           /\ SelectedTable(lastOp'.channel)[lastOp'.channel] = {})
             => lastOp'.result = "ClientNotSubscribedError"
      ]_vars

\* An unsubscribe on a literal channel whose set is empty, by a client that
\* is not registered, was answered with ClientNotSubscribedError.
C10_Witness ==
    /\ lastOp.op = "unsub_client"
    /\ lastOp.result = "ClientNotSubscribedError"
    /\ lastOp.channel \in DOMAIN channels
    /\ channels[lastOp.channel] = {}
    /\ lastOp.client.id \notin DOMAIN clients

\* C11: pub_message returns and changes neither the client table nor either
\* subscription table; a publish to a name with no literal entry and no
\* matching pattern sends nothing, and an unsub_client on that name right
\* after it still returns ChannelDoesNotExistError.
C11_PublishReadsOnly ==
    [][/\ IsPub(lastOp') =>
            /\ lastOp'.result = "Ok"
            /\ UNCHANGED <<clients, channels, pattern_channels>>
            /\ (/\ lastOp'.channel \notin DOMAIN channels
                /\ MatchingPatterns(lastOp'.channel) = {})
                  => lastOp'.sent = <<>>
       /\ (/\ IsPub(lastOp)
           /\ lastOp.sent = <<>>
           /\ lastOp'.op = "unsub_client"
           /\ lastOp'.channel = lastOp.channel
           /\ lastOp.channel \notin DOMAIN SelectedTable(lastOp.channel))
             => lastOp'.result = "ChannelDoesNotExistError"
      ]_vars

\* A publish to the never-subscribed name "a" sent nothing although a
\* registered client is subscribed to a pattern (one that does not match).
C11_Witness ==
    /\ IsPub(lastOp)
    /\ lastOp.channel = <<"a">>
    /\ lastOp.sent = <<>>
    /\ <<"a">> \notin DOMAIN channels
    /\ MatchingPatterns(<<"a">>) = {}
    /\ \E c \in DOMAIN clients : InAnySet(c)

\* The published names each stored pattern selects under anchored glob
\* matching, written out: "a*" selects every name that starts with a, "a?"
\* the names of exactly two characters that start with a.
SelectedBy(pattern) ==
    IF pattern = <<"a", "*">>
    THEN { <<"a">>, <<"a", "b">>, <<"a", "?">>, <<"a", "*">> }
    ELSE IF pattern = <<"a", "?">>
    THEN { <<"a", "b">>, <<"a", "?">>, <<"a", "*">> }
    ELSE {}

HasWildcard(name) == \E i \in DOMAIN name : name[i] \in {"*", "?"}

\* No literal key has a wildcard, every pattern key has one, and no string
\* is a key of both tables.
Partition ==
    /\ \A k \in DOMAIN channels : ~HasWildcard(k)
    /\ \A k \in DOMAIN pattern_channels : HasWildcard(k)
    /\ DOMAIN channels \cap DOMAIN pattern_channels = {}

\* C13: in every reachable state the literal table's keys contain neither
\* `*` nor `?` and the pattern table's keys contain at least one of them, so
\* no string is a key of both; and a sub_client or unsub_client on a name
\* leaves the table its classification does not select unchanged.
C13_TablePartition ==
    [][/\ Partition
       /\ Partition'
       /\ lastOp'.op \in {"sub_client", "unsub_client"} =>
             IF HasWildcard(lastOp'.channel)
             THEN UNCHANGED channels
             ELSE UNCHANGED pattern_channels
      ]_vars

\* A subscription to the pattern "a?" went to the pattern table while both
\* tables have entries.
C13_Witness ==
    /\ lastOp.op = "sub_client"
    /\ lastOp.result = "Ok"
    /\ lastOp.channel = <<"a", "?">>
    /\ DOMAIN channels = { <<"a", "b">> }
    /\ DOMAIN pattern_channels = { <<"a", "?">>, <<"a", "*">> }

\* C14: unsub_client takes the channel string as an exact key. For a client
\* c that is in no literal set for the literal name n, unsub_client(c, n)
\* fails and leaves both tables as they were, and a publish to n right after
\* it still sends to c when c is registered and subscribed to a pattern that
\* matches n. unsub_client(c, P) on a pattern P holding c succeeds and takes
\* c out of P's set, and a publish right after it to any name P matches does
\* not send to c unless the literal set or another matching pattern holds c.
C14_UnsubExactKey ==
    [][/\ (/\ lastOp'.op = "unsub_client"
           /\ ~HasWildcard(lastOp'.channel)
           /\ lastOp'.client.id \notin LiteralSubscribers(lastOp'.channel))
             => /\ lastOp'.result \in {"ChannelDoesNotExistError",
                                       "ClientNotSubscribedError"}
                /\ UNCHANGED <<channels, pattern_channels>>
       /\ (/\ lastOp.op = "unsub_client"
           /\ ~HasWildcard(lastOp.channel)
           /\ lastOp.result # "Ok"
           /\ lastOp.client.id \in PatternSubscribers(lastOp.channel)
           /\ lastOp.client.id \in DOMAIN clients
           /\ IsPub(lastOp')
           /\ lastOp'.channel = lastOp.channel)
             => lastOp.client.id \in SentIds(lastOp')
       /\ (/\ lastOp'.op = "unsub_client"
           /\ HasWildcard(lastOp'.channel)
           /\ lastOp'.channel \in DOMAIN pattern_channels
           /\ lastOp'.client.id \in pattern_channels[lastOp'.channel])
             => /\ lastOp'.result = "Ok"
                /\ lastOp'.client.id \notin pattern_channels'[lastOp'.channel]
       /\ (/\ lastOp.op = "unsub_client"
           /\ HasWildcard(lastOp.channel)
           /\ lastOp.result = "Ok"
           /\ IsPub(lastOp')
           /\ WildMatch(lastOp.channel, lastOp'.channel)
           /\ lastOp.client.id \notin LiteralSubscribers(lastOp'.channel)
           /\ \A q \in MatchingPatterns(lastOp'.channel) \ {lastOp.channel} :
                 lastOp.client.id \notin pattern_channels[q])
             => lastOp.client.id \notin SentIds(lastOp')
      ]_vars

\* A registered client subscribed only to the pattern "a?" was refused an
\* unsubscribe from the literal "ab", which has an entry, and stays in the
\* pattern's set.
C14_Witness ==
    /\ lastOp.op = "unsub_client"
    /\ lastOp.channel = <<"a", "b">>
    /\ lastOp.result = "ClientNotSubscribedError"
    /\ lastOp.client.id \in DOMAIN clients
    /\ <<"a", "?">> \in DOMAIN pattern_channels
    /\ lastOp.client.id \in pattern_channels[<<"a", "?">>]
    /\ \A q \in DOMAIN pattern_channels \ { <<"a", "?">> } :
          lastOp.client.id \notin pattern_channels[q]

\* C15: a successful sub_client(c, ch) or unsub_client(c, ch) changes only
\* whether c is in the set of ch in the selected table: the client table,
\* the other table, every other channel's set and the other members of ch's
\* set stay as they were. A publish to ch right after a successful
\* unsub_client(c, ch) sends to every registered identifier left in ch's
\* set, and to c exactly when c is registered and a matching pattern holds c.
C15_SubUnsubFrame ==
    [][/\ (lastOp'.op \in {"sub_client", "unsub_client"}
             /\ lastOp'.result = "Ok")
             => LET c == lastOp'.client.id
                    ch == lastOp'.channel
                    table == SelectedTable(ch)
                    after == SelectedTableAfter(ch)
                    before == IF ch \in DOMAIN table THEN table[ch] ELSE {}
                IN  /\ clients' = clients
                    /\ IF HasWildcard(ch) THEN UNCHANGED channels
                                          ELSE UNCHANGED pattern_channels
                    /\ DOMAIN after = DOMAIN table \cup {ch}
                    /\ \A k \in DOMAIN table \ {ch} : after[k] = table[k]
                    /\ after[ch] \ {c} = before \ {c}
                    /\ c \in after[ch] <=> lastOp'.op = "sub_client"
       /\ (/\ lastOp.op = "unsub_client"
           /\ lastOp.result = "Ok"
           /\ IsPub(lastOp')
           /\ lastOp'.channel = lastOp.channel)
             => LET c == lastOp.client.id
                    ch == lastOp.channel
                IN  /\ (SelectedTable(ch)[ch] \cap DOMAIN clients)
                          \subseteq SentIds(lastOp')
                    /\ c \in SentIds(lastOp')
                          <=> (c \in DOMAIN clients
                                 /\ c \in PatternSubscribers(ch))
      ]_vars

\* Client 1 was unsubscribed from the literal "ab"; client 2 stays in its
\* set and client 1 stays subscribed to a pattern that matches "ab".
C15_Witness ==
    /\ lastOp.op = "unsub_client"
    /\ lastOp.result = "Ok"
    /\ lastOp.client.id = 1
    /\ lastOp.channel = <<"a", "b">>
    /\ 2 \in LiteralSubscribers(<<"a", "b">>)
    /\ 1 \in PatternSubscribers(<<"a", "b">>)
    /\ {1, 2} \subseteq DOMAIN clients

\* The identifiers the tables select for a published name.
Selected(name) == LiteralSubscribers(name) \cup PatternSubscribers(name)

\* C16: a publish returns, sends to no selected identifier that is not a
\* key of the client table and still sends to every selected identifier
\* that is; sub_client succeeds for an identifier that is not in the client
\* table (so such states are reached); and a publish right after
\* add_client(c) sends to c on every channel the tables select c for.
C16_SkipsUnregistered ==
    [][/\ IsPub(lastOp') =>
            /\ lastOp'.result = "Ok"
            /\ \A c \in Selected(lastOp'.channel) :
                  c \in SentIds(lastOp') <=> c \in DOMAIN clients
       /\ (/\ lastOp'.op = "sub_client"
           /\ lastOp'.client.id \notin DOMAIN clients
           /\ \/ lastOp'.channel \notin DOMAIN SelectedTable(lastOp'.channel)
              \/ lastOp'.client.id
                    \notin SelectedTable(lastOp'.channel)[lastOp'.channel])
             => /\ lastOp'.result = "Ok"
                /\ lastOp'.client.id
                      \in SelectedTableAfter(lastOp'.channel)[lastOp'.channel]
       /\ (/\ lastOp.op = "add_client"
           /\ IsPub(lastOp')
           /\ lastOp.client.id \in Selected(lastOp'.channel))
             => lastOp.client.id \in SentIds(lastOp')
      ]_vars

\* A publish to "ab" skipped the subscribed, unregistered identifier 1 and
\* sent to identifier 2, which comes after it.
C16_Witness ==
    /\ IsPub(lastOp)
    /\ lastOp.channel = <<"a", "b">>
    /\ 1 \in LiteralSubscribers(<<"a", "b">>)
    /\ 1 \notin DOMAIN clients
    /\ 2 \in Selected(<<"a", "b">>)
    /\ SentIds(lastOp) = {2}

\* What a sub_client or unsub_client of identifier c on name ch returns and
\* leaves behind, as a function of the two subscription tables alone.
Outcome(op, literal, pattern, c, ch) ==
    LET isPattern == HasWildcard(ch)
        table == IF isPattern THEN pattern ELSE literal
        present == ch \in DOMAIN table
        member == present /\ c \in table[ch]
        result ==
            IF op = "sub_client"
            THEN (IF member THEN "ClientAlreadySubscribedError" ELSE "Ok")
            ELSE IF ~present THEN "ChannelDoesNotExistError"
            ELSE IF member THEN "Ok" ELSE "ClientNotSubscribedError"
        set == IF op = "sub_client"
               THEN (IF present THEN table[ch] ELSE {}) \cup {c}
               ELSE (IF present THEN table[ch] \ {c} ELSE {})
        after == IF op = "sub_client" \/ present
                 THEN [k \in DOMAIN table \cup {ch} |->
                          IF k = ch THEN set ELSE table[k]]
                 ELSE table
    IN  [result |-> result,
         literal |-> IF isPattern THEN literal ELSE after,
         pattern |-> IF isPattern THEN after ELSE pattern]

\* C17: the result of a sub_client or unsub_client and the subscription
\* tables it leaves are a function of the two subscription tables and the
\* call's identifier and name; the client table has no part in it. So from
\* any two reachable states with equal subscription tables, whatever their
\* client tables, the same call returns the same result and ends with equal
\* subscription tables.
C17_ClientTableIrrelevant ==
    [][lastOp'.op \in {"sub_client", "unsub_client"} =>
          LET out == Outcome(lastOp'.op, channels, pattern_channels,
                             lastOp'.client.id, lastOp'.channel)
          IN  /\ lastOp'.result = out.result
              /\ channels' = out.literal
              /\ pattern_channels' = out.pattern
      ]_vars

\* An identifier that is not in the client table was unsubscribed with Ok
\* while another identifier is registered and subscribed to the same name.
C17_Witness ==
    /\ lastOp.op = "unsub_client"
    /\ lastOp.result = "Ok"
    /\ lastOp.client.id \notin DOMAIN clients
    /\ \E c \in DOMAIN clients :
          /\ lastOp.channel \in DOMAIN SelectedTable(lastOp.channel)
          /\ c \in SelectedTable(lastOp.channel)[lastOp.channel]

\* The sequences of sends a publish of m to name n can make, one for each
\* iteration order of the pattern table.
PossibleSends(n, m) ==
    { SendAll(UniqueClientIdentifiers(SubbedClientIdentifiers(n),
                                      PatternClientIdentifiers(order, n)), m) :
        order \in IterOrders(DOMAIN pattern_channels) }

\* The sequence of sends has one to x at some point before one to y.
SendsBefore(sends, x, y) ==
    \E i, j \in DOMAIN sends :
        i < j /\ sends[i].client.id = x /\ sends[j].client.id = y

\* x and y are registered, in no literal set of n, and selected for n each
\* through one matching pattern only, a different one for each.
ThroughDifferentPatterns(n, x, y) ==
    /\ {x, y} \subseteq DOMAIN clients
    /\ x # y
    /\ {x, y} \cap LiteralSubscribers(n) = {}
    /\ \E p, q \in MatchingPatterns(n) :
          /\ p # q
          /\ {r \in MatchingPatterns(n) : x \in pattern_channels[r]} = {p}
          /\ {r \in MatchingPatterns(n) : y \in pattern_channels[r]} = {q}

\* C18: in one publish the recipients that are in the literal set of the
\* published name come first, in ascending identifier order, and every
\* recipient selected through patterns only comes after all of them; two
\* pattern-only recipients that come from different matching patterns can
\* be sent to in either order (for the order a publish took, the iteration
\* order of the pattern table that gives the opposite one exists); and the
\* set of recipients is the same whatever the order.
C18_ActualOrder ==
    /\ IsPub(lastOp) =>
          /\ \A i, j \in DOMAIN lastOp.sent :
                (i < j /\ lastOp.sent[j].client.id
                             \in LiteralSubscribers(lastOp.channel))
                   => /\ lastOp.sent[i].client.id
                            \in LiteralSubscribers(lastOp.channel)
                      /\ lastOp.sent[i].client.id < lastOp.sent[j].client.id
          /\ SentIds(lastOp) = Selected(lastOp.channel) \cap DOMAIN clients
          /\ lastOp.sent \in PossibleSends(lastOp.channel, lastOp.msg)
    /\ IsPub(lastOp) =>
          \A i, j \in DOMAIN lastOp.sent :
             (/\ i < j
              /\ ThroughDifferentPatterns(lastOp.channel,
                                          lastOp.sent[i].client.id,
                                          lastOp.sent[j].client.id))
                => \E sends \in PossibleSends(lastOp.channel, lastOp.msg) :
                      SendsBefore(sends, lastOp.sent[j].client.id,
                                  lastOp.sent[i].client.id)

\* A publish sent to identifier 2 and then to identifier 1, both selected
\* through patterns only.
C18_Witness ==
    /\ IsPub(lastOp)
    /\ LiteralSubscribers(lastOp.channel) = {}
    /\ Len(lastOp.sent) = 2
    /\ lastOp.sent[1].client.id = 2
    /\ lastOp.sent[2].client.id = 1
    /\ ThroughDifferentPatterns(lastOp.channel, 1, 2)
====
